---- MODULE Spec2Model ----
(***************************************************************************)
(* A model of the nacho translation core: the Linker (linker.rs), the      *)
(* Lifter (lifter.rs) and the Compiler (compiler.rs), and of the VM state  *)
(* codec (state_optimizer.rs).  Each component is a state machine over     *)
(* its own fields; SpecLinker, SpecLifter, SpecCompiler and SpecCodec      *)
(* drive one component each and leave the fields of the others alone.      *)
(* SpecLiftX64 is lift_x64 alone, with entry points up to u64::MAX.        *)
(***************************************************************************)
EXTENDS Integers, Sequences, FiniteSets, TLC

VARIABLES
    \* Linker (linker.rs:3-8) and the observations made of its calls
    symbols,            \* Linker.symbols: name -> address
    imports,            \* Linker.imports: Vec<String>
    required_imports,   \* the argument of the last resolve_imports call
    resolved_map,       \* the map the last resolve_imports call returned
    first_index,        \* per name, the index returned by the first call that resolved it
    resolve_calls,      \* number of resolve_imports calls made on this Linker
    import_section,     \* the bytes the last generate_import_section call returned
    \* Lifter (lifter.rs:19-22) and the locals of a lift_x64 call in progress
    blocks,             \* Lifter.blocks: address -> Vec<IRAp>
    binary,             \* the buffer being lifted
    entry_point,        \* the entry point of the call
    i,                  \* byte index of the decoder loop
    pc,                 \* the local pc of lift_x64
    current_block,      \* the block accumulator
    lift_state,         \* "idle", "x64" (loop running), "done", "panicked"
    lift_result,        \* "none", "Ok", "InvalidBinary" or "panic"
    lifts,              \* number of lift calls made on this Lifter
    block_start,        \* byte offset at which the current accumulation began
    inserted,           \* set of <<key, start address>> of the blocks this call inserted
    blocks_at_call,     \* Lifter.blocks as it was when the call began
    \* Compiler (compiler.rs:3-6), its input and its outputs
    optimization_level, \* Compiler.optimization_level
    cblocks,            \* the block map handed to compile / whose blocks are optimized
    orig_cblocks,       \* the block map before any optimize call
    wasm_module,        \* the bytes of the last compile call
    prev_module,        \* the bytes of the compile call before it
    optimize_calls,     \* number of optimize calls made
    \* State optimizer (state_optimizer.rs): a VM state and what the codec made of it
    input,              \* the bytes handed to optimize_state
    compressed,         \* what optimize_state returned
    decompressed        \* what decompress_state returned for it

linkerVars == <<symbols, imports, required_imports, resolved_map, first_index,
                resolve_calls, import_section>>
lifterVars == <<blocks, binary, entry_point, i, pc, current_block, lift_state,
                lift_result, lifts, block_start, inserted, blocks_at_call>>
compilerVars == <<optimization_level, cblocks, orig_cblocks, wasm_module,
                  prev_module, optimize_calls>>
codecVars == <<input, compressed, decompressed>>
vars == <<linkerVars, lifterVars, compilerVars, codecVars>>

(***************************************************************************)
(* Maps (std::collections::HashMap) are functions on a finite key set.     *)
(***************************************************************************)
EmptyMap == [x \in {} |-> 0]

\* HashMap::insert: the value of an existing key is overwritten.
MapInsert(m, k, v) == [x \in (DOMAIN m) \cup {k} |-> IF x = k THEN v ELSE m[x]]

\* Marks "no bytes returned yet"; no byte is negative.
NoBytes == <<-1>>

(***************************************************************************)
(* Linker                                                                  *)
(***************************************************************************)
MaxRequired == 3
MaxResolveCalls == 2

Names == {"foo", "bar", "baz"}
SymbolNames == {"main"}
SymbolAddrs == {4096, 8192}

RECURSIVE SeqsUpTo(_, _)
SeqsUpTo(S, n) ==
    IF n = 0 THEN {<<>>}
    ELSE LET shorter == SeqsUpTo(S, n - 1)
         IN  shorter \cup {Append(s, x) : s \in {t \in shorter : Len(t) = n - 1}, x \in S}

\* The arguments resolve_imports is called with.
RequiredLists == SeqsUpTo(Names, MaxRequired)

\* Linker::new
LinkerNew ==
    /\ symbols = EmptyMap
    /\ imports = <<>>
    /\ required_imports = <<>>
    /\ resolved_map = EmptyMap
    /\ first_index = EmptyMap
    /\ resolve_calls = 0
    /\ import_section = NoBytes

\* Linker::define_symbol
define_symbol(name, address) ==
    /\ symbols' = MapInsert(symbols, name, address)
    /\ UNCHANGED <<imports, required_imports, resolved_map, first_index,
                   resolve_calls, import_section>>

\* The loop of resolve_imports from position idx (zero-based) on: every
\* element is pushed to the import list and mapped to its position in the
\* argument.
RECURSIVE ResolveLoop(_, _, _, _)
ResolveLoop(req, idx, imps, rmap) ==
    IF idx >= Len(req) THEN [imports |-> imps, resolved_map |-> rmap]
    ELSE ResolveLoop(req, idx + 1, Append(imps, req[idx + 1]),
                     MapInsert(rmap, req[idx + 1], idx))

\* Per name, the index of the first call that resolved it.
RecordFirst(first, rmap) ==
    [n \in (DOMAIN first) \cup (DOMAIN rmap) |->
        IF n \in DOMAIN first THEN first[n] ELSE rmap[n]]

\* Linker::resolve_imports
resolve_imports(required) ==
    LET r == ResolveLoop(required, 0, imports, EmptyMap)
    IN  /\ resolve_calls < MaxResolveCalls
        /\ imports' = r.imports
        /\ resolved_map' = r.resolved_map
        /\ required_imports' = required
        /\ first_index' = RecordFirst(first_index, r.resolved_map)
        /\ resolve_calls' = resolve_calls + 1
        /\ UNCHANGED <<symbols, import_section>>

\* Linker::generate_import_section: the section is returned empty.
generate_import_section ==
    /\ import_section' = <<>>
    /\ UNCHANGED <<symbols, imports, required_imports, resolved_map, first_index,
                   resolve_calls>>

(***************************************************************************)
(* IR operations (lifter.rs:4-17).  An operation is a tuple whose first    *)
(* element names the variant of IRAp and whose rest are its operands.      *)
(***************************************************************************)
IRStore(addr, reg) == <<"Store", addr, reg>>
IRAdd(dest, src1, src2) == <<"Add", dest, src1, src2>>
IRRet == <<"Ret">>

\* One operation of every variant of IRAp.
IROps == {<<"Load", 0, 0>>, <<"Store", 0, 0>>, <<"Add", 0, 1, 0>>, <<"Sub", 0, 1, 0>>,
          <<"Mul", 0, 1, 0>>, <<"Div", 0, 1, 0>>, <<"Jmp", 0>>, <<"Bz", 0, 0>>,
          <<"Call", 0>>, <<"Ret">>, <<"Syscall", 0>>}

Kind(op) == op[1]

(***************************************************************************)
(* Lifter                                                                  *)
(***************************************************************************)
MaxLen == 3
MaxLifts == 2

\* 0x55 push rbp, 0x48 REX.W, 0x89 and 0xe5 (the rest of mov rbp, rsp; on
\* their own they are bytes the decoder does not recognize), 0xc3 ret.
PushRbp == 85
RexW == 72
MovOpcode == 137
MovModRM == 229
RetByte == 195
Bytes == {PushRbp, RexW, MovOpcode, MovModRM, RetByte}

EntryPoints == {4096, 4097}

\* The buffers lifted.
Binaries == SeqsUpTo(Bytes, MaxLen)

\* Lifter::new
LifterNew ==
    /\ blocks = EmptyMap
    /\ binary = <<>>
    /\ entry_point = 0
    /\ i = 0
    /\ pc = 0
    /\ current_block = <<>>
    /\ lift_state = "idle"
    /\ lift_result = "none"
    /\ lifts = 0
    /\ block_start = 0
    /\ inserted = {}
    /\ blocks_at_call = EmptyMap

\* binary[i] of the source, whose indices start at 0.
ByteAt(k) == binary[k + 1]

\* Entry of lift_x64: the locals are initialized, nothing is validated.
lift_x64_begin(bin, entry) ==
    /\ lift_state = "idle"
    /\ lifts < MaxLifts
    /\ binary' = bin
    /\ entry_point' = entry
    /\ pc' = entry
    /\ current_block' = <<>>
    /\ i' = 0
    /\ lift_state' = "x64"
    /\ lift_result' = "none"
    /\ lifts' = lifts + 1
    /\ block_start' = 0
    /\ inserted' = {}
    /\ blocks_at_call' = blocks
    /\ UNCHANGED blocks

InLoop == lift_state = "x64" /\ i < Len(binary)

LoopFrame == UNCHANGED <<binary, entry_point, lifts, blocks_at_call,
                         linkerVars, compilerVars, codecVars>>

\* A u64 address is held as the two's-complement reading of its 64 bits:
\* u64::MAX is -1, and a sum that wraps around 2^64 is the plain sum.
U64Max == 0 - 1

\* pc += 1 at the end of the loop body.  Below u64::MAX it is the sum.  At
\* u64::MAX the sum overflows: a build without overflow checks wraps to 0,
\* a build with them (the debug profile) panics there, after the arm ran.
PcIncrement ==
    \/ /\ pc' = pc + 1
       /\ UNCHANGED <<lift_state, lift_result>>
    \/ /\ pc = U64Max
       /\ pc' = pc
       /\ lift_state' = "panicked"
       /\ lift_result' = "panic"

\* 0x55 => push rbp
DecodePushRbp ==
    /\ InLoop
    /\ ByteAt(i) = PushRbp
    /\ current_block' = Append(current_block, IRStore(0, 0))
    /\ i' = i + 1
    /\ PcIncrement
    /\ UNCHANGED <<blocks, block_start, inserted>>
    /\ LoopFrame

\* The test of the 0x48 arm: two more bytes follow and they are 0x89 0xe5.
IsMovRbpRsp(k) ==
    /\ k + 2 < Len(binary)
    /\ ByteAt(k + 1) = MovOpcode
    /\ ByteAt(k + 2) = MovModRM

\* 0x48 => REX.W followed by mov rbp, rsp
DecodeMovRbpRsp ==
    /\ InLoop
    /\ ByteAt(i) = RexW
    /\ IsMovRbpRsp(i)
    /\ current_block' = Append(current_block, IRAdd(0, 1, 0))
    /\ i' = i + 3
    /\ PcIncrement
    /\ UNCHANGED <<blocks, block_start, inserted>>
    /\ LoopFrame

\* 0x48 => REX.W followed by anything else, or cut short by the buffer's end
DecodeRexOther ==
    /\ InLoop
    /\ ByteAt(i) = RexW
    /\ ~IsMovRbpRsp(i)
    /\ i' = i + 1
    /\ PcIncrement
    /\ UNCHANGED <<blocks, current_block, block_start, inserted>>
    /\ LoopFrame

\* A ret arm that inserts the accumulator before pushing Ret onto it.
CommittedBlockBeforeRet(cur) == cur

\* The block the ret arm inserts: the accumulator with Ret pushed onto it.
CommittedBlock(cur) == Append(cur, IRRet)

\* 0xc3 => ret: the block is inserted under the local pc and the accumulator
\* is cleared.
DecodeRet ==
    /\ InLoop
    /\ ByteAt(i) = RetByte
    /\ blocks' = MapInsert(blocks, pc, CommittedBlock(current_block))
    /\ inserted' = inserted \cup {<<pc, entry_point + block_start>>}
    /\ current_block' = <<>>
    /\ i' = i + 1
    /\ block_start' = i + 1
    /\ PcIncrement
    /\ LoopFrame

\* _ => any other byte
DecodeOther ==
    /\ InLoop
    /\ ByteAt(i) \notin {PushRbp, RexW, RetByte}
    /\ i' = i + 1
    /\ PcIncrement
    /\ UNCHANGED <<blocks, current_block, block_start, inserted>>
    /\ LoopFrame

\* The loop's exit: lift_x64 returns Ok(()); the accumulator is dropped.
lift_x64_return ==
    /\ lift_state = "x64"
    /\ ~(i < Len(binary))
    /\ lift_state' = "done"
    /\ lift_result' = "Ok"
    /\ UNCHANGED <<blocks, binary, entry_point, i, pc, current_block, lifts,
                   block_start, inserted, blocks_at_call>>

\* Lifter::lift_arm64: returns Ok(()) and touches nothing.
lift_arm64(bin, entry) ==
    /\ lift_state = "idle"
    /\ lifts < MaxLifts
    /\ binary' = bin
    /\ entry_point' = entry
    /\ lift_state' = "done"
    /\ lift_result' = "Ok"
    /\ lifts' = lifts + 1
    /\ i' = 0
    /\ pc' = entry
    /\ current_block' = <<>>
    /\ block_start' = 0
    /\ inserted' = {}
    /\ blocks_at_call' = blocks
    /\ UNCHANGED blocks

\* The call is over: its arguments and locals go out of scope, the Lifter
\* keeps its block map.
DropLocals ==
    /\ lift_state = "done"
    /\ lift_state' = "idle"
    /\ lift_result' = "none"
    /\ binary' = <<>>
    /\ entry_point' = 0
    /\ i' = 0
    /\ pc' = 0
    /\ current_block' = <<>>
    /\ block_start' = 0
    /\ inserted' = {}
    /\ blocks_at_call' = EmptyMap
    /\ UNCHANGED <<blocks, lifts, linkerVars, compilerVars, codecVars>>

(***************************************************************************)
(* Compiler                                                                *)
(***************************************************************************)
MaxOps == 2
MaxOptimizeCalls == 2

BlockAddrs == {4096, 4097}
OptLevels == {0, 1, 2}

RECURSIVE MapsOver(_, _)
\* The maps with key set D whose blocks hold at most n operations in all.
MapsOver(D, n) ==
    IF D = {} THEN {EmptyMap}
    ELSE LET a == CHOOSE x \in D : TRUE
         IN  UNION {{MapInsert(m, a, s) : m \in MapsOver(D \ {a}, n - Len(s))} :
                    s \in SeqsUpTo(IROps, n)}

BlockMaps == UNION {MapsOver(D, MaxOps) : D \in SUBSET BlockAddrs}

\* Before Compiler::new and any call.
CompilerIdle ==
    /\ optimization_level = 0
    /\ cblocks = EmptyMap
    /\ orig_cblocks = EmptyMap
    /\ wasm_module = NoBytes
    /\ prev_module = NoBytes
    /\ optimize_calls = 0

\* Compiler::new(level) and the block map the caller holds.
CompilerNew ==
    /\ optimization_level \in OptLevels
    /\ cblocks \in BlockMaps
    /\ orig_cblocks = cblocks
    /\ wasm_module = NoBytes
    /\ prev_module = NoBytes
    /\ optimize_calls = 0

\* WASM magic header, then the version.
WasmHeader == <<0, 97, 115, 109>> \o <<1, 0, 0, 0>>

\* The match of compile: the bytes pushed for one operation.
EmitOp(op) ==
    CASE Kind(op) = "Add" -> <<106>>     \* 0x6a i32.add
      [] Kind(op) = "Sub" -> <<107>>     \* 0x6b i32.sub
      [] Kind(op) = "Ret" -> <<11>>      \* 0x0b end
      [] OTHER -> <<>>

RECURSIVE EmitBlock(_)
\* for op in block
EmitBlock(block) ==
    IF block = <<>> THEN <<>>
    ELSE EmitOp(Head(block)) \o EmitBlock(Tail(block))

RECURSIVE EmitBlocks(_, _)
\* for (addr, block) in blocks, the map being visited in the given order
EmitBlocks(bmap, order) ==
    IF order = <<>> THEN <<>>
    ELSE EmitBlock(bmap[Head(order)]) \o EmitBlocks(bmap, Tail(order))

\* A compile that writes the magic but not the version.
CompileWithoutVersion(bmap, order) == <<0, 97, 115, 109>> \o EmitBlocks(bmap, order)

\* The bytes compile returns when the map's iterator yields its keys in `order`.
CompileInOrder(bmap, order) == WasmHeader \o EmitBlocks(bmap, order)

\* The orders in which a HashMap's iterator may yield the keys S: the order
\* depends on the map's hasher state and capacity, not on its contents alone.
IterOrders(S) ==
    {o \in [1..Cardinality(S) -> S] : \A x \in S : \E k \in DOMAIN o : o[k] = x}

\* Compiler::compile
compile ==
    /\ \E order \in IterOrders(DOMAIN cblocks) :
          wasm_module' = CompileInOrder(cblocks, order)
    /\ prev_module' = wasm_module
    /\ UNCHANGED <<optimization_level, cblocks, orig_cblocks, optimize_calls>>

\* A peephole pass that, when enabled, removes the operation at the end of
\* the vector.
optimizeDropsLast(level, ir) ==
    IF level >= 1 /\ ir # <<>> THEN SubSeq(ir, 1, Len(ir) - 1) ELSE ir

\* The body of Compiler::optimize: the vector is left as it is.
optimize(level, ir) == ir

\* Compiler::optimize called on the block at addr.
OptimizeBlock(addr) ==
    /\ optimize_calls < MaxOptimizeCalls
    /\ addr \in DOMAIN cblocks
    /\ cblocks' = [cblocks EXCEPT ![addr] = optimize(optimization_level, @)]
    /\ optimize_calls' = optimize_calls + 1
    /\ UNCHANGED <<optimization_level, orig_cblocks, wasm_module, prev_module>>

(***************************************************************************)
(* State optimizer: run-length coding of VM state (state_optimizer.rs)     *)
(***************************************************************************)
MaxStateLen == 5
MaxRuns == 2

\* The longest run one marker encodes, and the longest run stored raw.
MaxRun == 255
MaxRawRun == 3

\* The byte values of the states: the marker value 0 and two others.
StateBytes == {0, 1, 2}

\* n times the byte b.
Repeat(b, n) == [k \in 1..n |-> b]

\* Run lengths around the two limits: stored raw, encoded, one full marker,
\* a full marker followed by a raw rest, a full marker followed by an
\* encoded rest.
RunLengths == {1, MaxRawRun, MaxRawRun + 1, MaxRun, MaxRun + 1, MaxRun + MaxRawRun + 1}

RECURSIVE RunStates(_)
\* The states made of at most n runs.
RunStates(n) ==
    IF n = 0 THEN {<<>>}
    ELSE LET fewer == RunStates(n - 1)
         IN  fewer \cup {s \o Repeat(b, len) :
                           s \in fewer, b \in StateBytes, len \in RunLengths}

\* The states compressed: every short one, and the ones made of few runs.
States == SeqsUpTo(StateBytes, MaxStateLen) \cup RunStates(MaxRuns)

\* Nothing has been compressed yet.
CodecIdle ==
    /\ input = <<>>
    /\ compressed = NoBytes
    /\ decompressed = NoBytes

\* A caller holds a state to compress.
CodecStart ==
    /\ input \in States
    /\ compressed = NoBytes
    /\ decompressed = NoBytes

\* The condition of the inner loop of optimize_state, for the run that
\* begins at index k (indices from 0) and has `count` bytes so far.
RunContinues(in, k, count) ==
    /\ k + count < Len(in)
    /\ in[k + count + 1] = in[k + 1]
    /\ count < MaxRun

\* The inner loop of optimize_state: count starts at 1 and grows by one
\* while the condition holds, so it ends at the first count that fails it.
CountRun(in, k) ==
    CHOOSE count \in 1..MaxRun :
        /\ ~RunContinues(in, k, count)
        /\ \A c \in 1..(count - 1) : RunContinues(in, k, c)

\* A test that encodes long runs only and stores a zero byte raw.
UseRleForLongRunsOnly(byte, count) == count > MaxRawRun

\* The test that chooses the encoded form.
UseRle(byte, count) == count > MaxRawRun \/ byte = 0

\* What optimize_state pushes for one run: marker, byte and the count as a
\* u8, or the bytes themselves.
EncodeRun(byte, count) ==
    IF UseRle(byte, count) THEN <<0, byte, count % 256>>
    ELSE Repeat(byte, count)

RECURSIVE OptimizeLoop(_, _, _)
\* The outer loop of optimize_state from index k on.
OptimizeLoop(in, k, out) ==
    IF k < Len(in)
    THEN LET count == CountRun(in, k)
         IN  OptimizeLoop(in, k + count, out \o EncodeRun(in[k + 1], count))
    ELSE out

optimize_state(in) == OptimizeLoop(in, 0, <<>>)

RECURSIVE DecompressLoop(_, _, _)
\* The loop of decompress_state from index k on.
DecompressLoop(c, k, out) ==
    IF k < Len(c)
    THEN IF c[k + 1] = 0 /\ k + 2 < Len(c)
         THEN DecompressLoop(c, k + 3, out \o Repeat(c[k + 2], c[k + 3]))
         ELSE DecompressLoop(c, k + 1, Append(out, c[k + 1]))
    ELSE out

decompress_state(c) == DecompressLoop(c, 0, <<>>)

\* optimize_state(input)
OptimizeState ==
    /\ compressed' = optimize_state(input)
    /\ UNCHANGED <<input, decompressed, linkerVars, lifterVars, compilerVars>>

\* decompress_state called on what optimize_state returned
DecompressState ==
    /\ compressed # NoBytes
    /\ decompressed' = decompress_state(compressed)
    /\ UNCHANGED <<input, compressed, linkerVars, lifterVars, compilerVars>>

(***************************************************************************)
(* Specifications                                                          *)
(***************************************************************************)
LinkerDefineSymbol ==
    /\ \E name \in SymbolNames, address \in SymbolAddrs : define_symbol(name, address)
    /\ UNCHANGED <<lifterVars, compilerVars, codecVars>>

LinkerResolveImports ==
    /\ resolve_calls < MaxResolveCalls
    /\ \E required \in RequiredLists : resolve_imports(required)
    /\ UNCHANGED <<lifterVars, compilerVars, codecVars>>

LinkerGenerateImportSection ==
    /\ generate_import_section
    /\ UNCHANGED <<lifterVars, compilerVars, codecVars>>

InitLinker == LinkerNew /\ LifterNew /\ CompilerIdle /\ CodecIdle
NextLinker == LinkerDefineSymbol \/ LinkerResolveImports \/ LinkerGenerateImportSection
SpecLinker == InitLinker /\ [][NextLinker]_vars

LiftX64Begin ==
    /\ lift_state = "idle"
    /\ \E bin \in Binaries, entry \in EntryPoints : lift_x64_begin(bin, entry)
    /\ UNCHANGED <<linkerVars, compilerVars, codecVars>>

LiftX64Return ==
    /\ lift_x64_return
    /\ UNCHANGED <<linkerVars, compilerVars, codecVars>>

LiftArm64 ==
    /\ lift_state = "idle"
    /\ \E bin \in Binaries, entry \in EntryPoints : lift_arm64(bin, entry)
    /\ UNCHANGED <<linkerVars, compilerVars, codecVars>>

InitLifter == LinkerNew /\ LifterNew /\ CompilerIdle /\ CodecIdle
\* lift_x64 called with any entry point, the last address included.
LiftX64BeginAnyEntry ==
    /\ lift_state = "idle"
    /\ \E bin \in Binaries, entry \in EntryPoints \cup {U64Max} :
          lift_x64_begin(bin, entry)
    /\ UNCHANGED <<linkerVars, compilerVars, codecVars>>

NextLifter ==
    \/ LiftX64Begin
    \/ DecodePushRbp
    \/ DecodeMovRbpRsp
    \/ DecodeRexOther
    \/ DecodeRet
    \/ DecodeOther
    \/ LiftX64Return
    \/ LiftArm64
    \/ DropLocals
SpecLifter == InitLifter /\ [][NextLifter]_vars

NextLiftX64 ==
    \/ LiftX64BeginAnyEntry
    \/ DecodePushRbp
    \/ DecodeMovRbpRsp
    \/ DecodeRexOther
    \/ DecodeRet
    \/ DecodeOther
    \/ LiftX64Return
    \/ DropLocals
SpecLiftX64 == InitLifter /\ [][NextLiftX64]_vars

CompilerCompile ==
    /\ compile
    /\ UNCHANGED <<linkerVars, lifterVars, codecVars>>

CompilerOptimize ==
    /\ \E addr \in BlockAddrs : OptimizeBlock(addr)
    /\ UNCHANGED <<linkerVars, lifterVars, codecVars>>

InitCompiler == LinkerNew /\ LifterNew /\ CompilerNew /\ CodecIdle
NextCompiler == CompilerCompile \/ CompilerOptimize
SpecCompiler == InitCompiler /\ [][NextCompiler]_vars

InitCodec == LinkerNew /\ LifterNew /\ CompilerIdle /\ CodecStart
NextCodec == OptimizeState \/ DecompressState
SpecCodec == InitCodec /\ [][NextCodec]_vars

(***************************************************************************)
(* Properties                                                              *)
(***************************************************************************)
Last(s) == s[Len(s)]

Range(s) == {s[k] : k \in DOMAIN s}

NoDuplicates(s) == \A j, k \in DOMAIN s : s[j] = s[k] => j = k

\* Position (from 1) of the first occurrence of n in s.
FirstPos(s, n) == CHOOSE k \in DOMAIN s : s[k] = n /\ \A j \in 1..(k - 1) : s[j] # n

\* Number of distinct names that precede the first occurrence of n in s.
DistinctBefore(s, n) == Cardinality({s[j] : j \in 1..(FirstPos(s, n) - 1)})

\* C1: on one Linker, every name of the map a resolve_imports call returns
\* has the index that the first call that resolved it returned.
C1_ResolvedNameKeepsIndex ==
    \A n \in DOMAIN resolved_map : resolved_map[n] = first_index[n]

\* C2: the first resolve_imports call on a fresh Linker maps each distinct
\* name of its argument to the number of distinct names that precede the
\* name's first occurrence; ["foo", "bar", "foo"] gives {foo: 0, bar: 1}.
C2_FirstSeenOrder ==
    resolve_calls = 1 =>
        /\ DOMAIN resolved_map = Range(required_imports)
        /\ \A n \in DOMAIN resolved_map :
              resolved_map[n] = DistinctBefore(required_imports, n)

\* C10: the import list holds each name at most once, and the index the
\* last resolve_imports call returned for a name is the name's zero-based
\* position in the import list.
C10_IndexIsImportPosition ==
    /\ NoDuplicates(imports)
    /\ \A n \in DOMAIN resolved_map :
          /\ resolved_map[n] + 1 \in DOMAIN imports
          /\ imports[resolved_map[n] + 1] = n

\* C3: every block lift_x64 inserts is keyed by the address at which the
\* block's accumulation began, and [0x55, 0xc3] lifted at 0x1000 on a fresh
\* Lifter leaves exactly one block, keyed 0x1000, that ends in Ret.
C3_BlockKeyedByStart ==
    /\ \A e \in inserted : e[1] = e[2]
    /\ (/\ lift_state = "done"
        /\ lifts = 1
        /\ lift_result = "Ok"
        /\ binary = <<PushRbp, RetByte>>
        /\ entry_point = 4096
        /\ inserted # {})
       => /\ DOMAIN blocks = {4096}
          /\ Last(blocks[4096]) = IRRet

Terminators == {"Jmp", "Bz", "Call", "Ret"}

\* C4: every block of the Lifter's block map is non-empty and ends in a
\* control transfer, and when a call is over the map holds nothing but what
\* it held before and the blocks inserted at a ret: the operations
\* accumulated after the last ret are not in it.
C4_BlocksEndInTerminator ==
    /\ \A a \in DOMAIN blocks :
          /\ blocks[a] # <<>>
          /\ Kind(Last(blocks[a])) \in Terminators
    /\ lift_state = "done" =>
          \A a \in DOMAIN blocks :
             \/ a \in {e[1] : e \in inserted}
             \/ a \in DOMAIN blocks_at_call /\ blocks[a] = blocks_at_call[a]

\* A call is over that inserted a block and then accumulated operations
\* that no ret followed.
C4_Witness ==
    /\ lift_state = "done"
    /\ inserted # {}
    /\ current_block # <<>>
    /\ blocks # blocks_at_call

\* The addresses of the buffer's bytes: the byte at index 0 is the one at
\* entry_point.
BufferAddrs == entry_point .. (entry_point + Len(binary) - 1)

InvalidInput == Len(binary) = 0 \/ entry_point \notin BufferAddrs

\* C5: a lift call reports InvalidBinary exactly when the buffer is empty or
\* the entry point lies outside it, and a failed call adds no block.
C5_InvalidBinaryReported ==
    lift_state = "done" =>
        /\ lift_result = "InvalidBinary" <=> InvalidInput
        /\ lift_result = "InvalidBinary" => blocks = blocks_at_call

\* C6: two compile calls on the same block map return the same bytes.
C6_CompileDeterministic ==
    (prev_module # NoBytes /\ wasm_module # NoBytes /\ cblocks = orig_cblocks)
        => wasm_module = prev_module

RECURSIVE TotalOps(_)
\* Number of operations in all the blocks of a map.
TotalOps(bmap) ==
    IF DOMAIN bmap = {} THEN 0
    ELSE LET a == CHOOSE x \in DOMAIN bmap : TRUE
         IN  Len(bmap[a]) + TotalOps([x \in (DOMAIN bmap) \ {a} |-> bmap[x]])

\* C7: compile emits at least one byte for every operation, so the bytes
\* after the 8-byte header are at least as many as the operations of the map.
C7_EveryOperationEmitsAByte ==
    wasm_module # NoBytes => Len(wasm_module) - 8 >= TotalOps(cblocks)

\* C8: for a non-empty block map, what compile returns begins with the
\* bytes 00 61 73 6d 01 00 00 00.
C8_ModuleHeader ==
    (wasm_module # NoBytes /\ DOMAIN cblocks # {}) =>
        /\ Len(wasm_module) >= 8
        /\ SubSeq(wasm_module, 1, 8) = <<0, 97, 115, 109, 1, 0, 0, 0>>

\* A map of two blocks was compiled and bytes follow the header.
C8_Witness ==
    /\ wasm_module # NoBytes
    /\ Cardinality(DOMAIN cblocks) = 2
    /\ Len(wasm_module) > 8

\* C9: after any number of optimize calls, at any optimization level, every
\* block is at most as long as it was and its last operation is the one it
\* was.
C9_OptimizeKeepsTerminator ==
    /\ DOMAIN cblocks = DOMAIN orig_cblocks
    /\ \A a \in DOMAIN cblocks :
          /\ Len(cblocks[a]) <= Len(orig_cblocks[a])
          /\ orig_cblocks[a] # <<>> =>
                /\ cblocks[a] # <<>>
                /\ Last(cblocks[a]) = Last(orig_cblocks[a])

\* optimize was called twice, at level 1, on a block that is an identity
\* addition followed by Ret.
C9_Witness ==
    /\ optimize_calls >= 2
    /\ optimization_level = 1
    /\ DOMAIN cblocks = {4096}
    /\ orig_cblocks[4096] = <<IRAdd(0, 1, 0), IRRet>>

\* Every step of the decoder loop moves the byte pointer forward, by 1 or
\* by 3, and stays within the buffer.
LiftPointerAdvances ==
    [][lift_state = "x64" /\ i' # i => /\ i' - i \in {1, 3}
                                      /\ i' <= Len(binary)
                                      /\ (i' - i = 3 => IsMovRbpRsp(i))]_vars

\* C11: lift_x64 never reads past the buffer's end and never ends without
\* returning: the byte pointer stays within the buffer's length and no call
\* is cut short by a panic.
C11_LiftReturns ==
    /\ i <= Len(binary)
    /\ lift_state = "x64" /\ i < Len(binary) => i + 1 \in DOMAIN binary
    /\ lift_state # "panicked"

\* C12: decompress_state(optimize_state(x)) = x for every state x.
C12_RoundTrip ==
    decompressed # NoBytes => decompressed = input

\* A state with a run longer than one marker encodes and a zero byte went
\* through both functions.
C12_Witness ==
    /\ decompressed # NoBytes
    /\ Len(input) > MaxRun
    /\ 0 \in Range(input)
    /\ Len(compressed) < Len(input)

====
